---- MODULE Spec2Model ----
(***************************************************************************)
(* Model of app.py: a Streamlit dashboard over a labour-statistics CSV.    *)
(*                                                                         *)
(* A session is a sequence of script runs.  Every run executes the script  *)
(* top to bottom: load_data(path) through st.cache_data, then, when a      *)
(* DataFrame came back, main_dashboard(data).  Between two runs the file   *)
(* on disk may change (the environment).                                   *)
(*                                                                         *)
(* Strings are ASCII here: the region '계' of the source is written "gye", *)
(* the other regions are romanised.  Columns: year = '년도', region =      *)
(* '지역', active = '경제활동인구 (천명)', employed = '취업자 (천명)',     *)
(* unemployed = '실업자 (천명)', rate = '실업률 (%)'.                      *)
(*                                                                         *)
(* Floating-point numbers are modelled as exact rationals <<n, d>> in      *)
(* lowest terms with d > 0; binary rounding is not modelled.               *)
(***************************************************************************)
EXTENDS Integers, Sequences, FiniteSets, TLC

(***************************************************************************)
(* Bounds of the model.                                                    *)
(***************************************************************************)
MaxRows == 2        \* rows of the input table
MaxRuns == 2        \* script runs of one session
ReprDigits == 4     \* fractional digits kept of a non-terminating float repr

(***************************************************************************)
(* The input universe.                                                     *)
(***************************************************************************)
AggregateMarker == "gye"
DataPath == "data.csv"
Years == {2022, 2023}
Regions == {AggregateMarker, "Seoul", "Gyeonggi"}
\* <<active, employed, unemployed>>: a zero denominator with unemployed > 0,
\* a zero numerator with active > 0, and a rate with no finite decimal form.
Measures == {<<0, 0, 1>>, <<2, 2, 0>>, <<3, 2, 1>>}
RawRecord == {[year |-> y, region |-> r, active |-> m[1], employed |-> m[2],
               unemployed |-> m[3]] : y \in Years, r \in Regions, m \in Measures}
Tables == UNION {[1..n -> RawRecord] : n \in 0..MaxRows}
FileStatus == {"ok", "missing", "unreadable"}

(***************************************************************************)
(* Rational arithmetic (the model of Python floats).                       *)
(***************************************************************************)
RECURSIVE GCD(_, _)
GCD(a, b) == IF b = 0 THEN a ELSE GCD(b, a % b)

Abs(x) == IF x < 0 THEN -x ELSE x

Rat(n, d) == LET g == GCD(Abs(n), Abs(d))
                 s == IF d < 0 THEN -1 ELSE 1
             IN  <<(s * n) \div g, (s * d) \div g>>

RatAdd(a, b) == Rat(a[1] * b[2] + b[1] * a[2], a[2] * b[2])

RatDivInt(a, k) == Rat(a[1], a[2] * k)

Zero == Rat(0, 1)

(***************************************************************************)
(* Column reductions of pandas: Series.sum and Series.mean.                *)
(***************************************************************************)
RECURSIVE SumInt(_, _)
SumInt(rows, col) ==
    IF rows = << >> THEN 0 ELSE rows[1][col] + SumInt(Tail(rows), col)

RECURSIVE SumRate(_)
SumRate(rows) ==
    IF rows = << >> THEN Zero ELSE RatAdd(rows[1].rate, SumRate(Tail(rows)))

\* The mean of an empty column is NaN, written <<0, 0>>.
NaN == <<0, 0>>

\* Variant: the rate of the column totals instead of the mean of the rates.
MeanRateWeighted(rows) ==
    IF rows = << >> THEN NaN
    ELSE IF SumInt(rows, "active") > 0
         THEN Rat(SumInt(rows, "unemployed") * 100, SumInt(rows, "active"))
         ELSE Zero

MeanRate(rows) ==
    IF rows = << >> THEN NaN ELSE RatDivInt(SumRate(rows), Len(rows))

(***************************************************************************)
(* load_data, lines 17-24: the body below the cache.                       *)
(***************************************************************************)
\* Variant: the ratio without the factor 100.
UnemploymentRateAsFraction(row) ==
    IF row.active > 0 THEN Rat(row.unemployed, row.active) ELSE Zero

UnemploymentRate(row) ==
    IF row.active > 0 THEN Rat(row.unemployed * 100, row.active) ELSE Zero

AddRate(row) ==
    [year |-> row.year, region |-> row.region, active |-> row.active,
     employed |-> row.employed, unemployed |-> row.unemployed,
     rate |-> UnemploymentRate(row)]

\* Variant: line 18 left out.
DropAggregateKeepAll(table) == table

\* df[df['region'] != marker]: a boolean mask keeps the rows in file order.
RECURSIVE DropAggregate(_)
DropAggregate(table) ==
    IF table = << >> THEN << >>
    ELSE IF Head(table).region # AggregateMarker
         THEN <<Head(table)>> \o DropAggregate(Tail(table))
         ELSE DropAggregate(Tail(table))

LoadFrame(table) ==
    LET kept == DropAggregate(table)
    IN  [i \in 1..Len(kept) |-> AddRate(kept[i])]

(***************************************************************************)
(* setup_sidebar, lines 34-45: the options of the two multiselects.  The   *)
(* selection itself is the user's input: any subset of the options.        *)
(***************************************************************************)
YearOptions(df) == {df[i].year : i \in 1..Len(df)}

RegionOptions(df) == {df[i].region : i \in 1..Len(df)}

(***************************************************************************)
(* main_dashboard, line 60: the boolean mask                               *)
(*   df[df[year].isin(selected_years) & df[region].isin(selected_regions)] *)
(***************************************************************************)
\* Variant: the two masks joined with | instead of &.
InMaskUnion(row, years, regions) == row.year \in years \/ row.region \in regions

InMask(row, years, regions) == row.year \in years /\ row.region \in regions

RECURSIVE FilterRows(_, _, _)
FilterRows(df, years, regions) ==
    IF df = << >> THEN << >>
    ELSE IF InMask(Head(df), years, regions)
         THEN <<Head(df)>> \o FilterRows(Tail(df), years, regions)
         ELSE FilterRows(Tail(df), years, regions)

(***************************************************************************)
(* main_dashboard, lines 67-69: the three KPI scalars.                     *)
(***************************************************************************)
Summarize(rows) ==
    [total_employed        |-> SumInt(rows, "employed"),
     total_unemployed      |-> SumInt(rows, "unemployed"),
     avg_unemployment_rate |-> MeanRate(rows)]

(***************************************************************************)
(* main_dashboard, lines 85, 92 and 96: the data of the three charts.      *)
(***************************************************************************)
LineChartDf(rows) ==
    [c \in {<<rows[i].year, rows[i].region>> : i \in 1..Len(rows)} |->
        SumInt(FilterRows(rows, {c[1]}, {c[2]}), "employed")]

RatioData(total_employed, total_unemployed) ==
    [employed |-> total_employed, unemployed |-> total_unemployed]

BarChartDf(rows) ==
    [r \in RegionOptions(rows) |->
        MeanRate(FilterRows(rows, YearOptions(rows), {r}))]

(***************************************************************************)
(* Text.  A text is a sequence of one-character strings.                   *)
(***************************************************************************)
DigitChar(d) == <<"0", "1", "2", "3", "4", "5", "6", "7", "8", "9">>[d + 1]

RECURSIVE Digits(_)
Digits(n) == IF n < 10 THEN <<DigitChar(n)>>
             ELSE Digits(n \div 10) \o <<DigitChar(n % 10)>>

\* The digits after the point of rem/d, by long division, at most k of them.
RECURSIVE FracDigits(_, _, _)
FracDigits(rem, d, k) ==
    IF rem = 0 \/ k = 0 THEN << >>
    ELSE <<DigitChar((rem * 10) \div d)>> \o FracDigits((rem * 10) % d, d, k - 1)

\* str(float), as DataFrame.to_csv writes a float64 cell: the decimal form
\* with at least one digit after the point, no fixed number of decimals and
\* no unit.  A float with no short decimal form is written by Python with 15
\* to 17 significant digits; the model keeps ReprDigits digits after the point.
FloatRepr(r) ==
    LET frac == FracDigits(r[1] % r[2], r[2], ReprDigits)
    IN  Digits(r[1] \div r[2]) \o <<".">> \o (IF frac = << >> THEN <<"0">> ELSE frac)

\* round(x * 100) of '{:.2f}': to the nearest hundredth, an exact tie to even.
Hundredths(r) ==
    LET q   == (r[1] * 100) \div r[2]
        rem == (r[1] * 100) % r[2]
    IN  IF 2 * rem > r[2] THEN q + 1
        ELSE IF 2 * rem = r[2] THEN q + (q % 2)
        ELSE q

\* '{:.2f}%'.format(x), lines 75 and 102.
FormatPct2(r) ==
    LET h == Hundredths(r)
    IN  Digits(h \div 100) \o <<".">> \o
        <<DigitChar((h % 100) \div 10), DigitChar(h % 10)>> \o <<"%">>

(***************************************************************************)
(* main_dashboard, lines 102 and 105: the table shown on screen (a Styler  *)
(* that formats the rate column) and the downloaded bytes (to_csv of the   *)
(* unstyled frame, encoded as utf-8-sig).                                  *)
(***************************************************************************)
Columns == <<"year", "region", "active", "employed", "unemployed", "rate">>

\* The rate column holds the results of the row-wise apply: float64 as soon
\* as one row took the division branch, int64 when every row returned the
\* integer 0 of the else branch.
RateIsFloat(df) == \E i \in 1..Len(df) : df[i].active > 0

\* Variant: the download written from the styled table.
RateCellStyled(df, row) == FormatPct2(row.rate)

RateCell(df, row) == IF RateIsFloat(df) THEN FloatRepr(row.rate) ELSE Digits(0)

StyledTable(rows) == [i \in 1..Len(rows) |-> FormatPct2(rows[i].rate)]

CsvRow(df, row) ==
    <<Digits(row.year), <<row.region>>, Digits(row.active),
      Digits(row.employed), Digits(row.unemployed), RateCell(df, row)>>

Utf8Bom == <<239, 187, 191>>

ToCsvUtf8Sig(df, rows) ==
    [bom    |-> Utf8Bom,
     header |-> Columns,
     lines  |-> [i \in 1..Len(rows) |-> CsvRow(df, rows[i])]]

(***************************************************************************)
(* State.  An optional value (None, or not computed in this run) is the    *)
(* empty sequence, a present value v is <<v>>.                             *)
(***************************************************************************)
VARIABLES
    fileStatus,       \* the file at DataPath: readable, absent, or present but not readable
    fileTable,        \* the rows of the file
    cache,            \* st.cache_data of load_data: path -> cached return value
    reads,            \* executions of pd.read_csv (line 17) in this session
    runs,             \* script runs started in this session
    pc,               \* "start": run begun; "main": data is a frame; "done": run ended
    data,             \* line 115: << >> for None, <<df>> for a frame
    executed,         \* the stages executed in the current run
    ui,               \* the elements the current run has put on the page
    selected_years,   \* line 53
    selected_regions, \* line 53
    filtered_df,      \* line 60
    summary,          \* lines 67-69
    line_chart_df,    \* line 85
    ratio_data,       \* line 92
    bar_chart_df,     \* line 96
    styled_table,     \* line 102
    csv_data          \* line 105

session == <<fileStatus, fileTable, cache, reads, runs>>
locals  == <<selected_years, selected_regions, filtered_df, summary,
             line_chart_df, ratio_data, bar_chart_df, styled_table, csv_data>>
vars    == <<session, pc, data, executed, ui, locals>>

NoLocals ==
    /\ selected_years = {}
    /\ selected_regions = {}
    /\ filtered_df = << >>
    /\ summary = << >>
    /\ line_chart_df = << >>
    /\ ratio_data = << >>
    /\ bar_chart_df = << >>
    /\ styled_table = << >>
    /\ csv_data = << >>

Init ==
    /\ fileStatus \in FileStatus
    /\ fileTable \in Tables
    /\ cache = [p \in {} |-> << >>]
    /\ reads = 0
    /\ runs = 1
    /\ pc = "start"
    /\ data = << >>
    /\ executed = {}
    /\ ui = {}
    /\ NoLocals

(***************************************************************************)
(* load_data(DataPath), lines 13-27 and 115-116.                           *)
(***************************************************************************)
\* Variant: no decorator, the body runs in every call of a readable file.
LoadDataCachedReread ==
    /\ pc = "start"
    /\ DataPath \in DOMAIN cache
    /\ reads' = reads + 1
    /\ data' = cache[DataPath]
    /\ ui' = IF cache[DataPath] = << >> THEN {"error"} ELSE {}
    /\ pc' = IF cache[DataPath] = << >> THEN "done" ELSE "main"
    /\ executed' = {"load_data", "read_csv"}
    /\ UNCHANGED <<fileStatus, fileTable, cache, runs, locals>>

\* The cache has an entry for the path: the stored value is returned and the
\* elements the function emitted (the st.error of line 26) are replayed; the
\* body does not run.
LoadDataCached ==
    /\ pc = "start"
    /\ DataPath \in DOMAIN cache
    /\ data' = cache[DataPath]
    /\ ui' = IF cache[DataPath] = << >> THEN {"error"} ELSE {}
    /\ pc' = IF cache[DataPath] = << >> THEN "done" ELSE "main"
    /\ executed' = {"load_data"}
    /\ UNCHANGED <<session, locals>>

\* Variant: no except clause, FileNotFoundError escapes like any exception.
LoadDataNotFoundUncaught ==
    /\ pc = "start"
    /\ DataPath \notin DOMAIN cache
    /\ fileStatus = "missing"
    /\ reads' = reads + 1
    /\ data' = << >>
    /\ ui' = {"exception"}
    /\ pc' = "done"
    /\ executed' = {"load_data", "read_csv"}
    /\ UNCHANGED <<fileStatus, fileTable, cache, runs, locals>>

\* Lines 25-27: pd.read_csv raises FileNotFoundError; the handler reports the
\* error and returns None, which the cache stores.
LoadDataNotFound ==
    /\ pc = "start"
    /\ DataPath \notin DOMAIN cache
    /\ fileStatus = "missing"
    /\ reads' = reads + 1
    /\ cache' = [p \in {DataPath} |-> << >>]
    /\ data' = << >>
    /\ ui' = {"error"}
    /\ pc' = "done"
    /\ executed' = {"load_data", "read_csv"}
    /\ UNCHANGED <<fileStatus, fileTable, runs, locals>>

\* Lines 17-24 on a readable file with at least one row left after line 18:
\* the frame is returned and the cache stores it.
LoadDataFrame ==
    /\ pc = "start"
    /\ DataPath \notin DOMAIN cache
    /\ fileStatus = "ok"
    /\ LoadFrame(fileTable) # << >>
    /\ reads' = reads + 1
    /\ cache' = [p \in {DataPath} |-> <<LoadFrame(fileTable)>>]
    /\ data' = <<LoadFrame(fileTable)>>
    /\ ui' = {}
    /\ pc' = "main"
    /\ executed' = {"load_data", "read_csv"}
    /\ UNCHANGED <<fileStatus, fileTable, runs, locals>>

\* Lines 17-20 on a readable file with no row left after line 18.  The
\* row-wise apply of an empty frame returns a frame, not a column, and the
\* assignment of a five-column frame to the one column of line 20 raises
\* ValueError: line 25 does not catch it, nothing is stored in the cache and
\* the run ends in the exception.
LoadDataEmpty ==
    /\ pc = "start"
    /\ DataPath \notin DOMAIN cache
    /\ fileStatus = "ok"
    /\ LoadFrame(fileTable) = << >>
    /\ reads' = reads + 1
    /\ data' = << >>
    /\ ui' = {"exception"}
    /\ pc' = "done"
    /\ executed' = {"load_data", "read_csv"}
    /\ UNCHANGED <<fileStatus, fileTable, cache, runs, locals>>

\* Line 17 raises an exception that is no FileNotFoundError (the file is
\* there but cannot be opened or parsed): line 25 does not catch it, nothing
\* is stored in the cache and the run ends in the exception.
LoadDataRaises ==
    /\ pc = "start"
    /\ DataPath \notin DOMAIN cache
    /\ fileStatus = "unreadable"
    /\ reads' = reads + 1
    /\ data' = << >>
    /\ ui' = {"exception"}
    /\ pc' = "done"
    /\ executed' = {"load_data", "read_csv"}
    /\ UNCHANGED <<fileStatus, fileTable, cache, runs, locals>>

LoadData ==
    \/ LoadDataCached
    \/ LoadDataNotFound
    \/ LoadDataFrame
    \/ LoadDataEmpty
    \/ LoadDataRaises

(***************************************************************************)
(* main_dashboard(data), lines 48-111, for the selection (ys, rs) that     *)
(* setup_sidebar returns.                                                  *)
(***************************************************************************)
Header == {"title", "intro", "sidebar"}

\* Variant: "and" for "or".
NoSelectionBoth(ys, rs) == ys = {} /\ rs = {}

\* Line 56: not selected_years or not selected_regions.
NoSelection(ys, rs) == ys = {} \/ rs = {}

\* Variant: the check of line 62 left out.
IsEmptyNever(rows) == FALSE

\* Line 62: filtered_df.empty.
IsEmpty(rows) == rows = << >>

\* Variant: >= 1 for > 1.
ShowTrendFromOne(ys) == Cardinality(ys) >= 1

\* Line 84: len(selected_years) > 1.
ShowTrend(ys) == Cardinality(ys) > 1

\* Lines 56-58: the warning and the return.
EmptySelection ==
    /\ executed' = executed \cup {"main_dashboard", "setup_sidebar"}
    /\ ui' = ui \cup Header \cup {"select_warning"}
    /\ UNCHANGED <<filtered_df, summary, line_chart_df, ratio_data,
                   bar_chart_df, styled_table, csv_data>>

\* Lines 60-64: the filter, the warning and the return.
EmptyResult(rows) ==
    /\ filtered_df' = <<rows>>
    /\ executed' = executed \cup {"main_dashboard", "setup_sidebar", "filter"}
    /\ ui' = ui \cup Header \cup {"no_data_warning"}
    /\ UNCHANGED <<summary, line_chart_df, ratio_data, bar_chart_df,
                   styled_table, csv_data>>

\* Lines 60-111: the filter, the KPIs, the charts, the table and the download.
Render(ys, rows) ==
    LET kpi == Summarize(rows)
    IN  /\ filtered_df' = <<rows>>
        /\ summary' = <<kpi>>
        /\ line_chart_df' = IF ShowTrend(ys) THEN <<LineChartDf(rows)>> ELSE << >>
        /\ ratio_data' = <<RatioData(kpi.total_employed, kpi.total_unemployed)>>
        /\ bar_chart_df' = <<BarChartDf(rows)>>
        /\ styled_table' = <<StyledTable(rows)>>
        /\ csv_data' = <<ToCsvUtf8Sig(data[1], rows)>>
        /\ executed' = executed \cup {"main_dashboard", "setup_sidebar", "filter",
                                      "aggregate", "export"}
        /\ ui' = ui \cup Header
                    \cup {"metric_employed", "metric_unemployed", "metric_rate"}
                    \cup (IF ShowTrend(ys) THEN {"line_chart"} ELSE {"trend_info"})
                    \cup {"ratio_chart", "region_chart", "dataframe",
                          "download_button"}

MainDashboard ==
    /\ pc = "main"
    /\ \E ys \in SUBSET YearOptions(data[1]), rs \in SUBSET RegionOptions(data[1]) :
          /\ selected_years' = ys
          /\ selected_regions' = rs
          /\ IF NoSelection(ys, rs) THEN EmptySelection
             ELSE IF IsEmpty(FilterRows(data[1], ys, rs))
                  THEN EmptyResult(FilterRows(data[1], ys, rs))
                  ELSE Render(ys, FilterRows(data[1], ys, rs))
    /\ pc' = "done"
    /\ UNCHANGED <<session, data>>

(***************************************************************************)
(* The session: a widget interaction starts the next run of the script,    *)
(* which begins with an empty page and fresh locals; the cache stays.      *)
(***************************************************************************)
Rerun ==
    /\ pc = "done"
    /\ runs < MaxRuns
    /\ runs' = runs + 1
    /\ pc' = "start"
    /\ data' = << >>
    /\ executed' = {}
    /\ ui' = {}
    /\ selected_years' = {}
    /\ selected_regions' = {}
    /\ filtered_df' = << >>
    /\ summary' = << >>
    /\ line_chart_df' = << >>
    /\ ratio_data' = << >>
    /\ bar_chart_df' = << >>
    /\ styled_table' = << >>
    /\ csv_data' = << >>
    /\ UNCHANGED <<fileStatus, fileTable, cache, reads>>

(***************************************************************************)
(* The environment: before a run loads its data the file is deleted,       *)
(* restored or made unreadable.  (A change later in the run is seen by the *)
(* next run only.)                                                         *)
(***************************************************************************)
FileChange ==
    /\ pc = "start"
    /\ fileStatus' \in FileStatus \ {fileStatus}
    /\ UNCHANGED <<fileTable, cache, reads, runs, pc, data, executed, ui, locals>>

Next == LoadData \/ MainDashboard \/ Rerun \/ FileChange

Spec == Init /\ [][Next]_vars

(***************************************************************************)
(* Vocabulary of the properties.                                           *)
(***************************************************************************)
LaterStages == {"main_dashboard", "setup_sidebar", "filter", "aggregate", "export"}

NothingComputed ==
    /\ summary = << >>
    /\ line_chart_df = << >>
    /\ ratio_data = << >>
    /\ bar_chart_df = << >>
    /\ styled_table = << >>
    /\ csv_data = << >>

RawOf(row) ==
    [year |-> row.year, region |-> row.region, active |-> row.active,
     employed |-> row.employed, unemployed |-> row.unemployed]

\* sub consists of the elements of full at the positions K, in their order.
IsSubsequenceAt(sub, full, K) ==
    /\ Len(sub) = Cardinality(K)
    /\ \A i \in K : sub[Cardinality({j \in K : j <= i})] = full[i]

RECURSIVE ColumnTotal(_, _, _)
ColumnTotal(rows, col, k) ==
    IF k = 0 THEN 0 ELSE rows[k][col] + ColumnTotal(rows, col, k - 1)

\* A common denominator of the per-record rates, and the sum of the rates
\* over it, both from the raw columns.
RECURSIVE CommonDen(_, _)
CommonDen(rows, k) ==
    IF k = 0 THEN 1
    ELSE (IF rows[k].active > 0 THEN rows[k].active ELSE 1) * CommonDen(rows, k - 1)

RECURSIVE RateNumerators(_, _, _)
RateNumerators(rows, k, den) ==
    IF k = 0 THEN 0
    ELSE (IF rows[k].active > 0
          THEN 100 * rows[k].unemployed * (den \div rows[k].active) ELSE 0)
         + RateNumerators(rows, k - 1, den)

IsDigit(c) == \E d \in 0..9 : DigitChar(d) = c

DigitVal(c) == CHOOSE d \in 0..9 : DigitChar(d) = c

RECURSIVE ParseInt(_)
ParseInt(text) ==
    IF text = << >> THEN 0
    ELSE ParseInt(SubSeq(text, 1, Len(text) - 1)) * 10 + DigitVal(text[Len(text)])

RECURSIVE Pow10(_)
Pow10(k) == IF k = 0 THEN 1 ELSE 10 * Pow10(k - 1)

HasChar(text, c) == \E i \in 1..Len(text) : text[i] = c

\* digits, or digits "." digits
IsPlainNumber(text) ==
    /\ text # << >>
    /\ \A i \in 1..Len(text) : IsDigit(text[i]) \/ text[i] = "."
    /\ Cardinality({i \in 1..Len(text) : text[i] = "."}) <= 1
    /\ text[1] # "." /\ text[Len(text)] # "."

\* The value <<numerator, denominator>> of a plain number.
ParseDecimal(text) ==
    IF HasChar(text, ".")
    THEN LET p == CHOOSE i \in 1..Len(text) : text[i] = "."
         IN  <<ParseInt(SubSeq(text, 1, p - 1) \o SubSeq(text, p + 1, Len(text))),
               Pow10(Len(text) - p)>>
    ELSE <<ParseInt(text), 1>>

\* "NN.NN%": digits, a point, exactly two digits, a percent sign.
IsPct2(text) ==
    /\ Len(text) >= 5
    /\ text[Len(text)] = "%"
    /\ text[Len(text) - 3] = "."
    /\ \A i \in 1..(Len(text) - 1) : i # Len(text) - 3 => IsDigit(text[i])

CsvShape ==
    /\ csv_data[1].bom = <<239, 187, 191>>
    /\ Len(csv_data[1].header) = 6
    /\ Len(csv_data[1].lines) = Len(filtered_df[1])
    /\ \A i \in 1..Len(csv_data[1].lines) :
          LET line == csv_data[1].lines[i]
              row  == filtered_df[1][i]
          IN  /\ Len(line) = 6
              /\ ParseInt(line[1]) = row.year
              /\ line[2] = <<row.region>>
              /\ ParseInt(line[3]) = row.active
              /\ ParseInt(line[4]) = row.employed
              /\ ParseInt(line[5]) = row.unemployed

(***************************************************************************)
(* C1.  The frame load_data returns has no row of the aggregate region and *)
(* has every other row of the file, in file order; so no run selects,      *)
(* filters, aggregates or exports a row of the aggregate region.           *)
(***************************************************************************)
C1_LoaderDropsAggregateRows ==
    /\ data # << >> =>
          /\ \A i \in 1..Len(data[1]) : data[1][i].region # AggregateMarker
          /\ LET K  == {i \in 1..Len(fileTable) : fileTable[i].region # AggregateMarker}
                 df == [i \in 1..Len(data[1]) |-> RawOf(data[1][i])]
             IN  IsSubsequenceAt(df, fileTable, K)
    /\ AggregateMarker \notin selected_regions
    /\ filtered_df # << >> =>
          \A i \in 1..Len(filtered_df[1]) : filtered_df[1][i].region # AggregateMarker
    /\ line_chart_df # << >> =>
          \A c \in DOMAIN line_chart_df[1] : c[2] # AggregateMarker
    /\ bar_chart_df # << >> => AggregateMarker \notin DOMAIN bar_chart_df[1]
    /\ csv_data # << >> =>
          \A i \in 1..Len(csv_data[1].lines) :
              csv_data[1].lines[i][2] # <<AggregateMarker>>

C1_Witness ==
    /\ csv_data # << >>
    /\ \E i, j \in 1..Len(fileTable) :
          /\ i < j
          /\ fileTable[i].region = AggregateMarker
          /\ fileTable[j].region # AggregateMarker

(***************************************************************************)
(* C2.  The working subset is the subsequence of the dataset whose rows    *)
(* have their year among the selected years and their region among the    *)
(* selected regions, in dataset order, duplicates kept; the dataset is     *)
(* still the cached one.                                                   *)
(***************************************************************************)
C2_FilterIsConjunctiveSubsequence ==
    filtered_df # << >> =>
        /\ LET K == {i \in 1..Len(data[1]) :
                        /\ data[1][i].year \in selected_years
                        /\ data[1][i].region \in selected_regions}
           IN  IsSubsequenceAt(filtered_df[1], data[1], K)
        /\ data = cache[DataPath]
        /\ Len(data[1]) =
              Cardinality({i \in 1..Len(fileTable) : fileTable[i].region # AggregateMarker})

C2_Witness ==
    /\ filtered_df # << >>
    /\ Len(data[1]) = 2
    /\ filtered_df[1] = <<data[1][2]>>
    /\ data[1][1].year \in selected_years
    /\ data[1][1].region \notin selected_regions

(***************************************************************************)
(* C3.  A run whose year selection or region selection is empty ends with  *)
(* the selection warning only: no filter, no aggregate, no metric, chart,  *)
(* table or download.                                                      *)
(***************************************************************************)
C3_EmptySelectionHalts ==
    (/\ pc = "done"
     /\ "setup_sidebar" \in executed
     /\ selected_years = {} \/ selected_regions = {})
    => /\ ui = Header \cup {"select_warning"}
       /\ executed \cap {"filter", "aggregate", "export"} = {}
       /\ filtered_df = << >>
       /\ NothingComputed

C3_Witness ==
    /\ pc = "done"
    /\ "setup_sidebar" \in executed
    /\ selected_years = {}
    /\ selected_regions # {}
    /\ "select_warning" \in ui

C5_EmptyResultHalts ==
    /\ (/\ pc = "done"
        /\ "setup_sidebar" \in executed
        /\ selected_years # {} /\ selected_regions # {}
        /\ ~ \E i \in 1..Len(data[1]) :
                /\ data[1][i].year \in selected_years
                /\ data[1][i].region \in selected_regions)
       => /\ ui = Header \cup {"no_data_warning"}
          /\ filtered_df = << << >> >>
          /\ executed \cap {"aggregate", "export"} = {}
          /\ NothingComputed
    /\ summary # << >> =>
          /\ filtered_df # << >> /\ filtered_df[1] # << >>
          /\ summary[1].avg_unemployment_rate # NaN
          /\ summary[1].avg_unemployment_rate[2] > 0

C5_Witness ==
    /\ pc = "done"
    /\ selected_years # {} /\ selected_regions # {}
    /\ filtered_df = << << >> >>
    /\ "no_data_warning" \in ui

(***************************************************************************)
(* C6.  A run that reaches the charts draws the trend chart exactly when   *)
(* more than one year is selected, shows the hint instead when one year is *)
(* selected, and draws the ratio chart and the by-region chart either way. *)
(***************************************************************************)
C6_TrendNeedsTwoYears ==
    (/\ pc = "done"
     /\ filtered_df # << >>
     /\ filtered_df[1] # << >>)
    => /\ "line_chart" \in ui <=> Cardinality(selected_years) > 1
       /\ line_chart_df # << >> <=> Cardinality(selected_years) > 1
       /\ "trend_info" \in ui <=> Cardinality(selected_years) = 1
       /\ {"ratio_chart", "region_chart"} \subseteq ui
       /\ ratio_data # << >>
       /\ bar_chart_df # << >>
       /\ DOMAIN bar_chart_df[1] =
             {filtered_df[1][i].region : i \in 1..Len(filtered_df[1])}

C6_Witness ==
    /\ pc = "done"
    /\ Cardinality(selected_years) = 1
    /\ Cardinality(YearOptions(data[1])) = 2
    /\ "trend_info" \in ui
    /\ "region_chart" \in ui

(***************************************************************************)
(* C7 as stated.  Every loaded row has rate = unemployed / active * 100    *)
(* when active > 0 and 0 otherwise, and its rate is 0 exactly when its     *)
(* active is 0.                                                            *)
(***************************************************************************)
RateFormulaHolds(row) ==
    IF row.active > 0
    THEN /\ row.rate[2] > 0
         /\ row.rate[1] * row.active = 100 * row.unemployed * row.rate[2]
    ELSE row.rate = <<0, 1>>

C7_Original ==
    data # << >> =>
        \A i \in 1..Len(data[1]) :
            /\ RateFormulaHolds(data[1][i])
            /\ data[1][i].rate = <<0, 1>> <=> data[1][i].active = 0

(***************************************************************************)
(* C7 as amended.  Every loaded row has rate = unemployed / active * 100   *)
(* when active > 0 and 0 otherwise; a row with active = 0 has rate 0       *)
(* whatever its unemployed; a rate is 0 exactly when active is 0 or        *)
(* unemployed is 0.                                                        *)
(***************************************************************************)
C7_RateFormula ==
    data # << >> =>
        \A i \in 1..Len(data[1]) :
            /\ RateFormulaHolds(data[1][i])
            /\ data[1][i].active = 0 => data[1][i].rate = <<0, 1>>
            /\ data[1][i].rate = <<0, 1>> <=>
                  (data[1][i].active = 0 \/ data[1][i].unemployed = 0)

C7_Witness ==
    /\ data # << >>
    /\ \E i, j \in 1..Len(data[1]) :
          /\ data[1][i].active = 0 /\ data[1][i].unemployed > 0
          /\ data[1][i].rate = <<0, 1>>
          /\ data[1][j].active > 0 /\ data[1][j].unemployed > 0

(***************************************************************************)
(* C8.  The summary of a non-empty working subset has total_employed and   *)
(* total_unemployed equal to the column sums and avg_unemployment_rate     *)
(* equal to the sum of the per-row rates divided by the number of rows.    *)
(***************************************************************************)
C8_SummaryScalars ==
    summary # << >> =>
        LET rows == filtered_df[1]
            n    == Len(rows)
            den  == CommonDen(rows, n)
            avg  == summary[1].avg_unemployment_rate
        IN  /\ summary[1].total_employed = ColumnTotal(rows, "employed", n)
            /\ summary[1].total_unemployed = ColumnTotal(rows, "unemployed", n)
            /\ avg[2] > 0
            /\ avg[1] * n * den = avg[2] * RateNumerators(rows, n, den)

\* Two rows of one (year, region) pair, whose mean rate differs from the
\* rate of the totals.
C8_Witness ==
    /\ summary # << >>
    /\ Len(filtered_df[1]) = 2
    /\ filtered_df[1][1].year = filtered_df[1][2].year
    /\ filtered_df[1][1].region = filtered_df[1][2].region
    /\ filtered_df[1][1].employed # filtered_df[1][2].employed
    /\ ColumnTotal(filtered_df[1], "active", 2) > 0
    /\ summary[1].avg_unemployment_rate[1] * ColumnTotal(filtered_df[1], "active", 2)
          # summary[1].avg_unemployment_rate[2] * 100 * summary[1].total_unemployed

C10_Original == reads <= 1

(***************************************************************************)
(* C10 as amended.  Once a call of load_data has returned (a frame, or     *)
(* None for a missing file) its value is cached for the path: the entry    *)
(* never changes or disappears, pd.read_csv never runs again, and every    *)
(* later call returns the cached value, whatever happened to the file.  A  *)
(* call that ended in an uncaught exception stored nothing.                *)
(***************************************************************************)
C10_CacheIsStable ==
    [][ /\ DataPath \in DOMAIN cache =>
              /\ cache' = cache
              /\ reads' = reads
              /\ (pc = "start" /\ pc' # "start") => data' = cache[DataPath]
        /\ (DataPath \notin DOMAIN cache /\ DataPath \in DOMAIN cache') =>
              /\ reads' = reads + 1
              /\ data' = cache'[DataPath]
              /\ "exception" \notin ui'
        /\ (DataPath \notin DOMAIN cache /\ "exception" \in ui') => cache' = cache
      ]_vars

C10_Witness ==
    /\ runs = 2
    /\ reads = 1
    /\ fileStatus = "missing"
    /\ DataPath \in DOMAIN cache
    /\ data # << >>
    /\ data = cache[DataPath]
    /\ executed = {"load_data", "main_dashboard", "setup_sidebar", "filter",
                   "aggregate", "export"}

====
